---- MODULE Spec2Model ----
(***************************************************************************)
(* Model of xequinet/interface/ase_calculator.py: the XeqCalculator class  *)
(* (an ASE Calculator wrapping a XequiNet model), its constructor and its  *)
(* calculate method.                                                       *)
(*                                                                         *)
(* Physical quantities are kept exact: a value x * Hartree^ha * Bohr^bohr  *)
(* is the record [v |-> x, ha |-> ha, bohr |-> bohr], so that a unit       *)
(* conversion changes the exponents and a sign inversion changes v.        *)
(* A quotient is the record [n |-> numerator, d |-> denominator].          *)
(*                                                                         *)
(* The wrapped model is opaque: each invocation raises or returns one of a *)
(* small set of bundles.  Device placement and tensor dtype casts carry no *)
(* state of their own and are not represented.  radius_graph_pbc lives in  *)
(* xequinet.utils and is written after the neighbor builder's contract,    *)
(* for cells whose lattice vectors are mutually orthogonal.                *)
(***************************************************************************)
EXTENDS Integers, Naturals, Sequences, FiniteSets, TLC

VARIABLES implemented_properties, calcs, atoms, model_inputs, calls, last, nconstructs, ncalls

vars == <<implemented_properties, calcs, atoms, model_inputs, calls, last, nconstructs, ncalls>>

(* ---------------------------- bounds ----------------------------------- *)
MaxConstructs == 2
MaxCalls == 2

(* ------------------------ generic helpers ------------------------------ *)
None == <<>>
Some(x) == <<x>>

EmptyDict == [k \in {} |-> 0]

Put(d, k, val) == [x \in (DOMAIN d) \cup {k} |-> IF x = k THEN val ELSE d[x]]

Abs(x) == IF x < 0 THEN -x ELSE x

SeqToSet(s) == {s[i] : i \in 1..Len(s)}

(* ------------------------ physical quantities -------------------------- *)
Qty(x) == [v |-> x, ha |-> 0, bohr |-> 0]

MulHartree(q) == [q EXCEPT !.ha = @ + 1]

DivBohr(q) == [q EXCEPT !.bohr = @ - 1]

NegVec(vec) == [k \in 1..Len(vec) |-> -vec[k]]

NegArr(arr) == [i \in 1..Len(arr) |-> NegVec(arr[i])]

Det3(m) ==
    m[1][1] * (m[2][2] * m[3][3] - m[2][3] * m[3][2])
  - m[1][2] * (m[2][1] * m[3][3] - m[2][3] * m[3][1])
  + m[1][3] * (m[2][1] * m[3][2] - m[2][2] * m[3][1])

Minor2(m, r1, r2, c1, c2) == m[r1][c1] * m[r2][c2] - m[r1][c2] * m[r2][c1]

CellRank(m) ==
    IF Det3(m) # 0 THEN 3
    ELSE IF \E r1, r2, c1, c2 \in 1..3 : Minor2(m, r1, r2, c1, c2) # 0 THEN 2
    ELSE IF \E r, c \in 1..3 : m[r][c] # 0 THEN 1
    ELSE 0

GetVolume(m) == Abs(Det3(m))

Voigt(m) == << [n |-> m[1][1], d |-> 1],
               [n |-> m[2][2], d |-> 1],
               [n |-> m[3][3], d |-> 1],
               [n |-> m[2][3] + m[3][2], d |-> 2],
               [n |-> m[1][3] + m[3][1], d |-> 2],
               [n |-> m[1][2] + m[2][1], d |-> 2] >>

DivVol(voigt, vol) == [k \in 1..6 |-> [n |-> voigt[k].n, d |-> voigt[k].d * vol]]

(* ------------------- radius_graph_pbc (neighbor builder) --------------- *)
Norm2(vec) == vec[1] * vec[1] + vec[2] * vec[2] + vec[3] * vec[3]

ShiftVec(cell, s) == [c \in 1..3 |-> s[1] * cell[1][c] + s[2] * cell[2][c] + s[3] * cell[3][c]]

Dist2(positions, cell, i, j, s) ==
    LET dv == ShiftVec(cell, s)
    IN  Norm2([c \in 1..3 |-> positions[j][c] + dv[c] - positions[i][c]])

(* number of lattice images needed along axis k: the least n with          *)
(* n * |a_k| >= cutoff on a periodic axis, the zero image alone otherwise  *)
ImageRange(pbc, cell, cutoff, k) ==
    IF pbc[k]
    THEN CHOOSE n \in 0..cutoff :
            /\ n * n * Norm2(cell[k]) >= cutoff * cutoff
            /\ \A m \in 0..(n - 1) : m * m * Norm2(cell[k]) < cutoff * cutoff
    ELSE 0

ShiftLess(s, t) ==
    \/ s[1] < t[1]
    \/ s[1] = t[1] /\ s[2] < t[2]
    \/ s[1] = t[1] /\ s[2] = t[2] /\ s[3] < t[3]

(* nearest first, ties broken by target index and then by shift *)
EdgeLess(e, f) ==
    \/ e.src < f.src
    \/ e.src = f.src /\ e.d2 < f.d2
    \/ e.src = f.src /\ e.d2 = f.d2 /\ e.dst < f.dst
    \/ e.src = f.src /\ e.d2 = f.d2 /\ e.dst = f.dst /\ ShiftLess(e.shift, f.shift)

Candidates(positions, pbc, cell, cutoff) ==
    LET n  == [k \in 1..3 |-> ImageRange(pbc, cell, cutoff, k)]
        N  == Len(positions)
        Sh == (-n[1]..n[1]) \X (-n[2]..n[2]) \X (-n[3]..n[3])
    IN  { [src |-> i, dst |-> j, shift |-> s, d2 |-> Dist2(positions, cell, i, j, s)] :
            i \in 1..N, j \in 1..N, s \in Sh }

Neighbors(positions, pbc, cell, cutoff) ==
    { e \in Candidates(positions, pbc, cell, cutoff) :
        /\ e.d2 <= cutoff * cutoff
        /\ ~(e.src = e.dst /\ e.shift = <<0, 0, 0>>) }

Truncate(E, max_num_neighbors) ==
    { e \in E : Cardinality({f \in E : f.src = e.src /\ EdgeLess(f, e)}) < max_num_neighbors }

SortEdges(E) ==
    [k \in 1..Cardinality(E) |->
        CHOOSE e \in E : Cardinality({f \in E : EdgeLess(f, e)}) = k - 1]

DegenerateLattice(pbc, cell) == \E k \in 1..3 : pbc[k] /\ Norm2(cell[k]) = 0

radius_graph_pbc(positions, pbc, cell, cutoff, max_num_neighbors) ==
    IF cutoff <= 0 \/ DegenerateLattice(pbc, cell)
    THEN [ok |-> FALSE, edge_index |-> <<>>, shifts |-> <<>>]
    ELSE LET es == SortEdges(Truncate(Neighbors(positions, pbc, cell, cutoff), max_num_neighbors))
         IN  [ok |-> TRUE,
              edge_index |-> [k \in 1..Len(es) |-> <<es[k].src, es[k].dst>>],
              shifts |-> [k \in 1..Len(es) |-> es[k].shift]]

(* --------------------------- input domains ----------------------------- *)
ZeroCell == << <<0, 0, 0>>, <<0, 0, 0>>, <<0, 0, 0>> >>

Diag(a, b, c) == << <<a, 0, 0>>, <<0, b, 0>>, <<0, 0, c>> >>

MkAtoms(numbers, positions, cell, pbc) ==
    [numbers |-> numbers, positions |-> positions, cell |-> cell, pbc |-> pbc]

Configs ==
    { MkAtoms(<<1>>, << <<0, 0, 0>> >>, ZeroCell, <<FALSE, FALSE, FALSE>>),
      MkAtoms(<<1, 8>>, << <<0, 0, 0>>, <<2, 0, 0>> >>, Diag(4, 0, 0), <<TRUE, FALSE, FALSE>>),
      MkAtoms(<<6>>, << <<1, 1, 1>> >>, Diag(5, 5, 5), <<TRUE, TRUE, TRUE>>),
      MkAtoms(<<6>>, << <<1, 1, 1>> >>, Diag(5, 5, 5), <<TRUE, TRUE, FALSE>>),
      MkAtoms(<<6>>, << <<1, 1, 1>> >>, Diag(5, 5, 0), <<TRUE, TRUE, TRUE>>) }

ModelTypes == {"md", "geometry", "dipole"}

CkptFiles == {"model.jit", "missing.jit"}

Models == {"net"}

Kwargs == { [cutoff |-> 3, charge |-> 1] }

PropertyRequests == { None, Some({"energy", "stress", "stresses"}) }

(* what the wrapped model may return: it raises, or returns the bundle of *)
(* its schema filled with non-zero values, or that bundle with one key    *)
(* missing, or (geometry schema) the bundle of zero energy and gradient   *)
VariantVec(var) == IF var = 0 THEN <<0, 0, 0>> ELSE <<1, -2, 0>>

VariantMat(var) == IF var = 0 THEN ZeroCell ELSE << <<1, 2, 0>>, <<0, 3, 0>>, <<4, 0, -1>> >>

FullBundle(N, var) ==
    [energy   |-> IF var = 0 THEN 0 ELSE -3,
     gradient |-> [i \in 1..N |-> VariantVec(var)],
     forces   |-> [i \in 1..N |-> VariantVec(var)],
     energies |-> [i \in 1..N |-> IF var = 0 THEN 0 ELSE -3],
     virial   |-> VariantMat(var),
     virials  |-> [i \in 1..N |-> VariantMat(var)]]

SchemaKeys(model_type) ==
    IF model_type = "geometry" THEN {"energy", "gradient"}
    ELSE {"energy", "forces", "energies", "virial", "virials"}

Restrict(d, K) == [k \in K |-> d[k]]

ModelResponses(model_type, N) ==
    { [raises |-> TRUE, res |-> EmptyDict] }
    \cup { [raises |-> FALSE, res |-> Restrict(FullBundle(N, var), SchemaKeys(model_type))] :
             var \in (IF model_type = "geometry" THEN {0, 1} ELSE {1}) }
    \cup { [raises |-> FALSE, res |-> Restrict(FullBundle(N, 1), SchemaKeys(model_type) \ {k})] :
             k \in SchemaKeys(model_type) }

(* ------------------------- class XeqCalculator ------------------------- *)
ClassImplementedProperties == <<"energy">>

default_parameters == [cutoff |-> 5, max_edges |-> 100, charge |-> 0, spin |-> 0]

(* Calculator.__init__ with the keywords: the defaults overridden by them *)
Parameters(kwargs) ==
    [k \in DOMAIN default_parameters |->
        IF k \in DOMAIN kwargs THEN kwargs[k] ELSE default_parameters[k]]

ValidModelType(model_type) == model_type \in {"md", "geometry"}

AdditionalProperties(model_type) ==
    IF model_type = "md" THEN <<"energies", "stress", "stresses", "forces">>
    ELSE <<"gradient">>

(* self.implemented_properties += [...] extends the list object found     *)
(* through the class attribute in place; the instance attribute it then   *)
(* binds is that same list                                                *)
ExtendProperties(props, model_type) == props \o AdditionalProperties(model_type)

CkptLoadable(ckpt_file) == ckpt_file = Some("model.jit")

(* as LoadModel, but trying the checkpoint before the pre-loaded model *)
LoadModelCkptFirst(ckpt_file, model) ==
    IF ckpt_file # None
    THEN IF ckpt_file = Some("model.jit")
         THEN [outcome |-> "ok", model |-> [from |-> "ckpt_file", name |-> ckpt_file[1]]]
         ELSE [outcome |-> "LoadError", model |-> [from |-> "none", name |-> ""]]
    ELSE IF model # None
         THEN [outcome |-> "ok", model |-> [from |-> "model", name |-> model[1]]]
    ELSE [outcome |-> "ValueError", model |-> [from |-> "none", name |-> ""]]

(* the model source chosen by the constructor, or the exception it raises *)
LoadModel(ckpt_file, model) ==
    IF model # None THEN [outcome |-> "ok", model |-> [from |-> "model", name |-> model[1]]]
    ELSE IF ckpt_file # None
         THEN IF CkptLoadable(ckpt_file)
              THEN [outcome |-> "ok", model |-> [from |-> "ckpt_file", name |-> ckpt_file[1]]]
              ELSE [outcome |-> "LoadError", model |-> [from |-> "none", name |-> ""]]
    ELSE [outcome |-> "ValueError", model |-> [from |-> "none", name |-> ""]]

InitOutcome(model_type, ckpt_file, model) ==
    IF ~ValidModelType(model_type) THEN "ValueError"
    ELSE LoadModel(ckpt_file, model).outcome

NewCalculator(model_type, ckpt_file, model, kwargs) ==
    [model_type |-> model_type,
     model      |-> LoadModel(ckpt_file, model).model,
     parameters |-> Parameters(kwargs),
     atoms      |-> None,
     results    |-> EmptyDict]

(* the list an instance reads as self.implemented_properties *)
InstanceProperties(i) == implemented_properties

(* --------------------------- calculate --------------------------------- *)
(* as CalculatorCalculate, but moving the atoms it is given to the origin *)
(* in place before copying them                                           *)
CalculatorCalculateInPlace(self_atoms, atoms_arg) ==
    LET moved == IF atoms_arg = None THEN atoms_arg
                 ELSE Some([atoms_arg[1] EXCEPT
                              !.positions = [i \in 1..Len(@) |-> <<0, 0, 0>>]])
    IN  [self_atoms |-> IF atoms_arg # None THEN moved ELSE self_atoms,
         caller     |-> moved]

(* Calculator.calculate of the base class: keeps a copy of the atoms it   *)
(* is given, and leaves the stored copy alone when given none; the        *)
(* caller's object is not written                                         *)
CalculatorCalculate(self_atoms, atoms_arg) ==
    [self_atoms |-> IF atoms_arg # None THEN Some(atoms_arg[1]) ELSE self_atoms,
     caller     |-> atoms_arg]

Coord(model_type, positions) ==
    IF model_type = "geometry" THEN DivBohr(Qty(positions)) ELSE Qty(positions)

CommonInputs(self, a) ==
    [at_no  |-> a.numbers,
     coord  |-> Coord(self.model_type, a.positions),
     charge |-> self.parameters.charge,
     spin   |-> self.parameters.spin]

NeedsGraph(model_type) == model_type = "md"

GraphArgs(self, a) ==
    [positions |-> a.positions, pbc |-> a.pbc, cell |-> a.cell,
     cutoff |-> self.parameters.cutoff, max_num_neighbors |-> self.parameters.max_edges]

(* radius_graph_pbc over the arguments the enumerated inputs can produce, *)
(* tabulated so that it is evaluated once per argument                    *)
GraphTable ==
    [args \in { [positions |-> a.positions, pbc |-> a.pbc, cell |-> a.cell,
                 cutoff |-> Parameters(kw).cutoff,
                 max_num_neighbors |-> Parameters(kw).max_edges] :
                a \in Configs, kw \in Kwargs } |->
        radius_graph_pbc(args.positions, args.pbc, args.cell, args.cutoff,
                         args.max_num_neighbors)]

BuildGraph(args) == GraphTable[args]

(* as WithGraph, but with the two arrays of the builder taken in the     *)
(* other order                                                            *)
WithGraphSwapped(inputs, graph) ==
    Put(Put(inputs, "edge_index", graph.shifts), "shifts", graph.edge_index)

WithGraph(inputs, graph) ==
    Put(Put(inputs, "edge_index", graph.edge_index), "shifts", graph.shifts)

GeometryEnergy(energy) == MulHartree(Qty(energy))

(* as GeometryForces, but without the sign inversion *)
GeometryForcesNoSign(gradient) == DivBohr(MulHartree(Qty(gradient)))

GeometryForces(gradient) == DivBohr(MulHartree(Qty(NegArr(gradient))))

StressOf(virial, a) == DivVol(Voigt(virial), GetVolume(a.cell))

StressesOf(virials, a) == [i \in 1..Len(virials) |-> StressOf(virials[i], a)]

WritesStress(a) == CellRank(a.cell) = 3

(* the statements that fill self.results, in order: the keys of the model *)
(* output each one reads and the result keys it writes                    *)
WritePlan(model_type, a) ==
    IF model_type = "geometry"
    THEN << [reads |-> {"energy"},   writes |-> {"energy"}],
            [reads |-> {"gradient"}, writes |-> {"forces"}] >>
    ELSE << [reads |-> {"energy"},   writes |-> {"energy"}],
            [reads |-> {"forces"},   writes |-> {"forces"}],
            [reads |-> {"energies"}, writes |-> {"energies"}] >>
         \o (IF WritesStress(a)
             THEN << [reads |-> {"virials", "virial"}, writes |-> {"stress", "stresses"}] >>
             ELSE <<>>)

ResultValue(key, model_type, model_res, a) ==
    IF model_type = "geometry"
    THEN IF key = "energy" THEN GeometryEnergy(model_res["energy"])
         ELSE GeometryForces(model_res["gradient"])
    ELSE CASE key = "energy"   -> Qty(model_res["energy"])
           [] key = "forces"   -> Qty(model_res["forces"])
           [] key = "energies" -> Qty(model_res["energies"])
           [] key = "stress"   -> StressOf(model_res["virial"], a)
           [] key = "stresses" -> StressesOf(model_res["virials"], a)

(* a statement whose key is missing from the model output raises KeyError *)
(* and the statements before it have already written                      *)
RECURSIVE RunPlan(_, _, _, _, _)
RunPlan(plan, model_type, model_res, a, results) ==
    IF plan = <<>> THEN [results |-> results, outcome |-> "ok"]
    ELSE IF ~(Head(plan).reads \subseteq DOMAIN model_res)
         THEN [results |-> results, outcome |-> "KeyError"]
    ELSE RunPlan(Tail(plan), model_type, model_res, a,
                 [k \in (DOMAIN results) \cup Head(plan).writes |->
                     IF k \in Head(plan).writes
                     THEN ResultValue(k, model_type, model_res, a)
                     ELSE results[k]])

BuilderCall(args) == [fn |-> "radius_graph_pbc", args |-> Some(args), ret |-> None]

(* the model invocation: ret is the bundle returned, None when it raised *)
ModelCall(response) ==
    [fn |-> "model", args |-> None,
     ret |-> IF response.raises THEN None ELSE Some(response.res)]

(* properties defaults to the implemented properties of the instance *)
RequestedProperties(properties, props) ==
    IF properties = None THEN SeqToSet(props) ELSE properties[1]

(* XeqCalculator.calculate up to the model invocation: the calculator   *)
(* with its copy of the atoms, the caller's atoms afterwards, the bundle  *)
(* assembled, the collaborators called so far, and "ok" or the exception  *)
(* raised                                                                 *)
Prepare(self, atoms_arg) ==
    LET base == CalculatorCalculate(self.atoms, atoms_arg)
        kept == [self EXCEPT !.atoms = base.self_atoms]
    IN  IF base.self_atoms = None
        THEN [self |-> kept, caller |-> base.caller, model_inputs |-> None,
              calls |-> <<>>, outcome |-> "AttributeError"]
        ELSE IF ~NeedsGraph(self.model_type)
        THEN [self |-> kept, caller |-> base.caller,
              model_inputs |-> Some(CommonInputs(self, base.self_atoms[1])),
              calls |-> <<>>, outcome |-> "ok"]
        ELSE LET args == GraphArgs(self, base.self_atoms[1])
             IN  CHOOSE prep \in
                   { IF graph.ok
                     THEN [self |-> kept, caller |-> base.caller,
                           model_inputs |->
                               Some(WithGraph(CommonInputs(self, base.self_atoms[1]), graph)),
                           calls |-> <<BuilderCall(args)>>, outcome |-> "ok"]
                     ELSE [self |-> kept, caller |-> base.caller,
                           model_inputs |-> Some(CommonInputs(self, base.self_atoms[1])),
                           calls |-> <<BuilderCall(args)>>,
                           outcome |-> "ConfigurationError"] :
                     graph \in {BuildGraph(args)} } : TRUE

(* the model invocation and the statements after it *)
Finish(prep, response) ==
    IF response.raises
    THEN [prep EXCEPT !.calls = Append(@, ModelCall(response)), !.outcome = "ModelError"]
    ELSE LET a   == prep.self.atoms[1]
             run == RunPlan(WritePlan(prep.self.model_type, a), prep.self.model_type,
                            response.res, a, prep.self.results)
         IN  [prep EXCEPT !.self.results = run.results,
                          !.calls = Append(@, ModelCall(response)),
                          !.outcome = run.outcome]

(* ------------------------- the state machine --------------------------- *)
(* implemented_properties: the list bound to the class attribute          *)
(* calcs: the calculator the caller holds, the one constructed last; a    *)
(*   new one takes the place of the one before                            *)
(* atoms: the Atoms object the caller passed to the last operation, as it *)
(*   stands after it (None when the operation was given none)             *)
(* model_inputs, calls: the bundle the last operation assembled and the   *)
(*   collaborators it called, in order                                    *)
(* last: the last operation, what it was given and how it ended           *)
NoOp ==
    [op |-> "none", outcome |-> "ok", model_type |-> "", ckpt_file |-> None,
     model |-> None, properties |-> {}, atoms |-> None]

Init ==
    /\ implemented_properties = ClassImplementedProperties
    /\ calcs = <<>>
    /\ atoms = None
    /\ model_inputs = None
    /\ calls = <<>>
    /\ last = NoOp
    /\ nconstructs = 0
    /\ ncalls = 0

(* XeqCalculator(model_type, ckpt_file, model, ...) *)
Construct ==
    /\ nconstructs < MaxConstructs
    /\ nconstructs' = nconstructs + 1
    /\ \E model_type \in ModelTypes,
          ckpt_file \in {None} \cup {Some(f) : f \in CkptFiles},
          model \in {None} \cup {Some(m) : m \in Models},
          kwargs \in Kwargs :
        LET outcome == InitOutcome(model_type, ckpt_file, model)
        IN  /\ implemented_properties' =
                 IF ValidModelType(model_type)
                 THEN ExtendProperties(implemented_properties, model_type)
                 ELSE implemented_properties
            /\ calcs' = IF outcome = "ok"
                        THEN <<NewCalculator(model_type, ckpt_file, model, kwargs)>>
                        ELSE calcs
            /\ last' = [NoOp EXCEPT !.op = "construct", !.outcome = outcome,
                                     !.model_type = model_type, !.ckpt_file = ckpt_file,
                                     !.model = model]
            /\ atoms' = None
            /\ model_inputs' = None
            /\ calls' = <<>>
            /\ UNCHANGED ncalls

(* calc.calculate(atoms, properties) on a constructed calculator: the    *)
(* whole method, Prepare and then, unless it raised, Finish               *)
Calculate ==
    /\ ncalls < MaxCalls
    /\ ncalls' = ncalls + 1
    /\ \E i \in 1..Len(calcs), atoms_arg \in {Some(a) : a \in Configs} :
       \E prep \in {Prepare(calcs[i], atoms_arg)} :
       \E response \in ModelResponses(calcs[i].model_type,
                          IF prep.self.atoms = None THEN 1
                          ELSE Len(prep.self.atoms[1].numbers)) :
       \E r \in {IF prep.outcome # "ok" THEN prep ELSE Finish(prep, response)} :
       \E properties \in PropertyRequests :
          /\ calcs' = [calcs EXCEPT ![i] = r.self]
          /\ atoms' = r.caller
          /\ model_inputs' = r.model_inputs
          /\ calls' = r.calls
          /\ last' = [NoOp EXCEPT !.op = "calculate", !.outcome = r.outcome,
                                   !.properties =
                                       RequestedProperties(properties, InstanceProperties(i)),
                                   !.atoms = atoms_arg]
          /\ UNCHANGED <<implemented_properties, nconstructs>>

Next == Construct \/ Calculate

Spec == Init /\ [][Next]_vars

(* ------------------------------ properties ----------------------------- *)
Self == calcs[1]

AfterCalculate == last.op = "calculate"

ModelInvoked == calls # <<>> /\ calls[Len(calls)].fn = "model"

ModelRes == calls[Len(calls)].ret[1]

Periodic3D(a) == a.pbc[1] /\ a.pbc[2] /\ a.pbc[3]

StressKeys == {"stress", "stresses"}

CommonKeys == {"at_no", "coord", "charge", "spin"}

GraphKeys == {"edge_index", "shifts"}

CalculateStep == last'.op = "calculate" /\ ncalls' = ncalls + 1

ConstructStep == last'.op = "construct" /\ nconstructs' = nconstructs + 1

(* C1: when stress or stresses is requested and the calculator is the      *)
(* geometry variant, or the md variant on a configuration that is not      *)
(* periodic along all three axes, calculate raises                         *)
(* UnsupportedPropertyError (it never returns normally).                   *)
C1_StressUnsupportedRaises ==
    ( /\ AfterCalculate
      /\ last.properties \cap StressKeys # {}
      /\ \/ Self.model_type = "geometry"
         \/ Self.model_type = "md" /\ ~Periodic3D(Self.atoms[1]) )
    => last.outcome # "ok"

(* C2: for the md variant, after a successful calculate the results hold   *)
(* stress and stresses if and only if the configuration is periodic along  *)
(* all three axes; otherwise both keys are absent.                         *)
C2_StressIffPeriodic3D ==
    (AfterCalculate /\ last.outcome = "ok" /\ Self.model_type = "md")
    => \A k \in StressKeys : (k \in DOMAIN Self.results) <=> Periodic3D(Self.atoms[1])

(* C3: a calculate that raises (the model failed, or its output lacks a    *)
(* key the variant reads) leaves the results as they were before the call: *)
(* it writes no value.                                                     *)
C3_AllOrNothing ==
    [][(CalculateStep /\ last'.outcome # "ok") => calcs'[1].results = calcs[1].results]_vars

(* C4: after a successful calculate the results hold exactly the keys that *)
(* this call writes for its configuration, nothing kept from an earlier    *)
(* call, and an md call has run the neighbor builder.                      *)
C4_NoStateAcrossCalls ==
    (AfterCalculate /\ last.outcome = "ok")
    => /\ DOMAIN Self.results =
            UNION { WritePlan(Self.model_type, Self.atoms[1])[k].writes :
                      k \in 1..Len(WritePlan(Self.model_type, Self.atoms[1])) }
       /\ Self.model_type = "md" => calls[1].fn = "radius_graph_pbc"

C6_ModelInputBundle ==
    (AfterCalculate /\ ModelInvoked)
    => LET b == model_inputs[1]
           a == Self.atoms[1]
           g == radius_graph_pbc(a.positions, a.pbc, a.cell,
                                 Self.parameters.cutoff, Self.parameters.max_edges)
       IN  /\ CommonKeys \subseteq DOMAIN b
           /\ DOMAIN b \subseteq CommonKeys \cup GraphKeys
           /\ b["at_no"] = a.numbers
           /\ b["charge"] = Self.parameters.charge
           /\ b["spin"] = Self.parameters.spin
           /\ (GraphKeys \cap DOMAIN b # {}) <=> Self.model_type = "md"
           /\ Self.model_type = "md"
                => /\ GraphKeys \subseteq DOMAIN b
                   /\ g.ok
                   /\ b["edge_index"] = g.edge_index
                   /\ b["shifts"] = g.shifts
                   /\ Len(calls) = 2
                   /\ calls[1].fn = "radius_graph_pbc"
                   /\ calls[1].args =
                        Some([positions |-> a.positions, pbc |-> a.pbc, cell |-> a.cell,
                              cutoff |-> Self.parameters.cutoff,
                              max_num_neighbors |-> Self.parameters.max_edges])
           /\ Self.model_type = "geometry" => Len(calls) = 1

C6_Witness ==
    /\ AfterCalculate
    /\ ModelInvoked
    /\ Self.model_type = "md"
    /\ Len(model_inputs[1]["edge_index"]) > 0

(* C7: in the geometry variant the model is given the positions divided by *)
(* Bohr, the energy returned is the model energy times Hartree and every   *)
(* force component is the model gradient component negated, times Hartree  *)
(* and divided by Bohr (zero energy and gradient give zero energy and      *)
(* forces); in the md variant coordinates, energy and forces pass through  *)
(* unchanged.                                                              *)
C7_UnitConversion ==
    (AfterCalculate /\ ModelInvoked)
    => LET b == model_inputs[1]
           a == Self.atoms[1]
           N == Len(a.positions)
       IN  IF Self.model_type = "geometry"
           THEN /\ b["coord"] = [v |-> a.positions, ha |-> 0, bohr |-> -1]
                /\ last.outcome = "ok"
                     => /\ Self.results["energy"] = [v |-> ModelRes["energy"], ha |-> 1, bohr |-> 0]
                        /\ Self.results["forces"].ha = 1
                        /\ Self.results["forces"].bohr = -1
                        /\ \A i \in 1..N, k \in 1..3 :
                              Self.results["forces"].v[i][k] = -ModelRes["gradient"][i][k]
                        /\ ( /\ ModelRes["energy"] = 0
                             /\ \A i \in 1..N : ModelRes["gradient"][i] = <<0, 0, 0>> )
                           => /\ Self.results["energy"].v = 0
                              /\ \A i \in 1..N : Self.results["forces"].v[i] = <<0, 0, 0>>
           ELSE /\ b["coord"] = [v |-> a.positions, ha |-> 0, bohr |-> 0]
                /\ last.outcome = "ok"
                     => /\ Self.results["energy"] = [v |-> ModelRes["energy"], ha |-> 0, bohr |-> 0]
                        /\ Self.results["forces"] = [v |-> ModelRes["forces"], ha |-> 0, bohr |-> 0]

C7_Witness ==
    /\ AfterCalculate
    /\ last.outcome = "ok"
    /\ Self.model_type = "geometry"
    /\ ModelRes["gradient"][1] = <<1, -2, 0>>
    /\ Self.results["forces"].v[1] = <<-1, 2, 0>>

(* C8: a calculate, whether it returns or raises, leaves the caller's      *)
(* configuration as it was passed, and changes nothing of the program      *)
(* state but the calculator's results and its own copy of the              *)
(* configuration.                                                          *)
C8_CalculateFrame ==
    [][CalculateStep =>
        /\ atoms' = last'.atoms
        /\ implemented_properties' = implemented_properties
        /\ Len(calcs') = Len(calcs)
        /\ calcs'[1].model_type = calcs[1].model_type
        /\ calcs'[1].model = calcs[1].model
        /\ calcs'[1].parameters = calcs[1].parameters
        /\ calcs'[1].atoms = last'.atoms]_vars

C8_Witness ==
    /\ AfterCalculate
    /\ last.outcome = "KeyError"
    /\ atoms = last.atoms
    /\ ncalls = 2

(* C9: the implemented-property list a calculator sees is fixed by its     *)
(* variant alone: energy and gradient for geometry; energy, energies,      *)
(* stress, stresses and forces for md; each once, whatever constructions   *)
(* went before.                                                            *)
C9_ImplementedPropertiesPerVariant ==
    Len(calcs) = 1
    => /\ Cardinality(SeqToSet(InstanceProperties(1))) = Len(InstanceProperties(1))
       /\ SeqToSet(InstanceProperties(1)) =
            IF Self.model_type = "geometry" THEN {"energy", "gradient"}
            ELSE {"energy", "energies", "stress", "stresses", "forces"}

(* C10: what a calculator advertises agrees with what a successful         *)
(* calculate writes: every result key is advertised, and on a 3-D periodic *)
(* configuration every advertised property is written.                     *)
C10_AdvertisedIsWritten ==
    (AfterCalculate /\ last.outcome = "ok")
    => /\ DOMAIN Self.results \subseteq SeqToSet(InstanceProperties(1))
       /\ (Periodic3D(Self.atoms[1]) /\ CellRank(Self.atoms[1].cell) = 3)
            => SeqToSet(InstanceProperties(1)) \subseteq DOMAIN Self.results

====
